---- MODULE Spec2Model ----
(***************************************************************************)
(* Model of the Dumroo.ai query assistant: role-based row filtering        *)
(* (utils.py), the natural-language query agent (query_agent.py) and the   *)
(* session loop of the Streamlit application (app.py).                     *)
(*                                                                         *)
(* Three specifications share the module:                                  *)
(*   SpecAccess  one pass of a role descriptor through validation and the  *)
(*               access filter, over every small dataset and descriptor;   *)
(*   SpecQuery   QueryAgent.query: completion -> snippet -> execution ->   *)
(*               normalised display string;                                *)
(*   Spec        the session: reruns of main() with role changes, agent    *)
(*               (re)builds and query submissions.                         *)
(***************************************************************************)
EXTENDS Integers, Sequences, FiniteSets, TLC

(***************************************************************************)
(* Bounds                                                                  *)
(***************************************************************************)
MaxRows == 3

(***************************************************************************)
(* Values                                                                  *)
(***************************************************************************)
\* Python's None, and the marker of a key that a dict does not hold.
None == "<None>"
Absent == "<absent>"

Classes == {"8", "9"}
Regions == {"North", "South"}
Usernames == {"Roshni_Admin", "Other_Admin"}

Keys == {"username", "assigned_class", "region"}

\* A row of the dataset: student identifier (its position in the file),
\* class and region.
Rows(i) == [id : {i}, class : Classes, region : Regions]

RECURSIVE DatasetsOfLen(_)
DatasetsOfLen(n) ==
    IF n = 0 THEN {<<>>}
    ELSE {Append(d, r) : d \in DatasetsOfLen(n - 1), r \in Rows(n)}

Datasets == UNION {DatasetsOfLen(n) : n \in 0..MaxRows}

\* A role descriptor as Python sees it: a dict with some of the three keys
\* (a present key may hold None), or a value that is not a dict.
MkDict(u, c, r) ==
    LET opt == ("username" :> u) @@ ("assigned_class" :> c) @@ ("region" :> r)
    IN  [kind |-> "dict",
         items |-> [k \in {x \in Keys : opt[x] /= Absent} |-> opt[k]]]

NotADict == [kind |-> "str", items |-> <<>>]

RoleDicts ==
    {MkDict(u, c, r) : u \in {Absent, "Roshni_Admin"},
                       c \in {Absent, None} \cup Classes,
                       r \in {Absent, None} \cup Regions}

RoleInputs == RoleDicts \cup {NotADict}

(***************************************************************************)
(* utils.py                                                                *)
(***************************************************************************)
\* dict.get(key): the value, or None when the key is missing.
Get(d, k) == IF k \in DOMAIN d.items THEN d.items[k] ELSE None

\* load_student_data: FileNotFoundError when the path does not exist.
load_student_data(exists, content) ==
    IF ~exists
    THEN [ok |-> FALSE, df |-> <<>>, error |-> "Data file not found"]
    ELSE [ok |-> TRUE, df |-> content, error |-> None]

\* The branch of the if/elif chain of get_filtered_data that a role takes.
filter_branch(user_role) ==
    LET assigned_class == Get(user_role, "assigned_class")
        region == Get(user_role, "region")
    IN  IF assigned_class /= None /\ region /= None THEN "both"
        ELSE IF assigned_class /= None THEN "class"
        ELSE IF region /= None THEN "region"
        ELSE "all"

get_filtered_data_or(user_role, df) ==
    LET assigned_class == Get(user_role, "assigned_class")
        region == Get(user_role, "region")
        both(row) == row.class = assigned_class \/ row.region = region
        byClass(row) == row.class = assigned_class
        byRegion(row) == row.region = region
        branch == filter_branch(user_role)
    IN  IF branch = "both" THEN SelectSeq(df, both)
        ELSE IF branch = "class" THEN SelectSeq(df, byClass)
        ELSE IF branch = "region" THEN SelectSeq(df, byRegion)
        ELSE df

\* get_filtered_data, after the load: boolean-mask selection keeps the rows
\* in file order.
get_filtered_data(user_role, df) ==
    LET assigned_class == Get(user_role, "assigned_class")
        region == Get(user_role, "region")
        both(row) == row.class = assigned_class /\ row.region = region
        byClass(row) == row.class = assigned_class
        byRegion(row) == row.region = region
        branch == filter_branch(user_role)
    IN  IF branch = "both" THEN SelectSeq(df, both)
        ELSE IF branch = "class" THEN SelectSeq(df, byClass)
        ELSE IF branch = "region" THEN SelectSeq(df, byRegion)
        ELSE df

validate_user_role_keyless(user_role) ==
    IF user_role.kind /= "dict"
    THEN [is_valid |-> FALSE, error |-> "User role must be a dictionary"]
    ELSE IF "username" \notin DOMAIN user_role.items
    THEN [is_valid |-> FALSE, error |-> "User role must contain 'username'"]
    ELSE [is_valid |-> TRUE, error |-> None]

\* validate_user_role: (is_valid, error_message); the tests are on the
\* presence of the keys, not on their values.
validate_user_role(user_role) ==
    IF user_role.kind /= "dict"
    THEN [is_valid |-> FALSE, error |-> "User role must be a dictionary"]
    ELSE IF "username" \notin DOMAIN user_role.items
    THEN [is_valid |-> FALSE, error |-> "User role must contain 'username'"]
    ELSE IF "assigned_class" \notin DOMAIN user_role.items
            /\ "region" \notin DOMAIN user_role.items
    THEN [is_valid |-> FALSE,
          error |-> "User role must contain at least 'assigned_class' or 'region'"]
    ELSE [is_valid |-> TRUE, error |-> None]

load_and_filter_data_strict(user_role, exists, content) ==
    LET loaded == load_student_data(exists, content)
        out == get_filtered_data(user_role, loaded.df)
    IN  IF ~loaded.ok
        THEN [ok |-> FALSE, df |-> <<>>, error |-> loaded.error]
        ELSE IF Len(out) = 0
        THEN [ok |-> FALSE, df |-> <<>>, error |-> "No rows match"]
        ELSE [ok |-> TRUE, df |-> out, error |-> None]

\* load_and_filter_data (app.py): (filtered_df, None) or (None, str(e)).
\* get_filtered_data loads the file first, then filters.
load_and_filter_data(user_role, exists, content) ==
    LET loaded == load_student_data(exists, content)
    IN  IF ~loaded.ok
        THEN [ok |-> FALSE, df |-> <<>>, error |-> loaded.error]
        ELSE [ok |-> TRUE, df |-> get_filtered_data(user_role, loaded.df),
              error |-> None]

(***************************************************************************)
(* query_agent.py: text                                                    *)
(***************************************************************************)
MaxLen == 6
MaxItems == 3
MaxTableRows == 2
MaxColumns == 2

\* Text is a sequence of tokens: the fence marker, the word python, a line
\* break, a blank, and any other character.
FENCE == "[fence]"
PY == "python"
NL == "\n"
SP == " "
CH == "x"

Alphabet == {FENCE, PY, NL, CH}
Whitespace == {NL, SP}

RECURSIVE TextsOfLen(_)
TextsOfLen(n) ==
    IF n = 0 THEN {<<>>}
    ELSE {Append(t, c) : t \in TextsOfLen(n - 1), c \in Alphabet}

Completions == UNION {TextsOfLen(n) : n \in 0..MaxLen}

Questions == {<<>>, <<SP>>, <<CH>>, <<SP, CH>>}

Slice(s, from, to) == SubSeq(s, from, to)

\* str.strip(): leading and trailing whitespace removed.
Strip(s) ==
    LET keep == {i \in 1..Len(s) : s[i] \notin Whitespace}
    IN  IF keep = {} THEN <<>>
        ELSE LET lo == CHOOSE i \in keep : \A j \in keep : i <= j
                 hi == CHOOSE i \in keep : \A j \in keep : j <= i
             IN  Slice(s, lo, hi)

\* pat occurs in s at position i.
MatchAt(s, pat, i) ==
    /\ i >= 1
    /\ i + Len(pat) - 1 <= Len(s)
    /\ \A k \in 1..Len(pat) : s[i + k - 1] = pat[k]

\* Python's substring test, pat in s.
Contains(s, pat) == \E i \in 1..(Len(s) + 1) : MatchAt(s, pat, i)

\* re.search(open + r'(.+?)\n[fence]', s, re.DOTALL): the leftmost position where
\* open matches and some later "\n[fence]" closes a group of at least one
\* character; the lazy group ends at the first such close. found = FALSE is
\* the None that re.search returns.
ReSearch(s, open) ==
    LET closes(i) == {j \in (i + Len(open) + 1)..Len(s) :
                         MatchAt(s, <<NL, FENCE>>, j)}
        starts == {i \in 1..Len(s) : MatchAt(s, open, i) /\ closes(i) /= {}}
    IN  IF starts = {} THEN [found |-> FALSE, group |-> <<>>]
        ELSE LET i == CHOOSE x \in starts : \A y \in starts : x <= y
                 j == CHOOSE x \in closes(i) : \A y \in closes(i) : x <= y
             IN  [found |-> TRUE, group |-> Slice(s, i + Len(open), j - 1)]

AttributeError == "'NoneType' object has no attribute 'group'"

\* _generate_code, lines 123-131, on the completion text: the snippet, or
\* the AttributeError of .group(1) on a search that found nothing.
_generate_code(content) ==
    LET code == Strip(content)
        tagged == ReSearch(code, <<FENCE, PY, NL>>)
        plain == ReSearch(code, <<FENCE, NL>>)
    IN  IF Contains(code, <<FENCE, PY>>)
        THEN IF tagged.found
             THEN [ok |-> TRUE, code |-> Strip(tagged.group), error |-> None]
             ELSE [ok |-> FALSE, code |-> <<>>, error |-> AttributeError]
        ELSE IF Contains(code, <<FENCE>>)
        THEN IF plain.found
             THEN [ok |-> TRUE, code |-> Strip(plain.group), error |-> None]
             ELSE [ok |-> FALSE, code |-> <<>>, error |-> AttributeError]
        ELSE [ok |-> TRUE, code |-> code, error |-> None]

(***************************************************************************)
(* query_agent.py: values, the execution scope and the snippet             *)
(***************************************************************************)
\* A Python value: its type, a count (the columns of a DataFrame) and its
\* items (the rows of a DataFrame, the entries of a Series, the items of a
\* list, the text of a scalar).
Value(type, n, items) == [type |-> type, n |-> n, items |-> items]

RECURSIVE ItemSeqs(_, _)
ItemSeqs(atoms, n) ==
    IF n = 0 THEN {<<>>}
    ELSE {Append(t, a) : t \in ItemSeqs(atoms, n - 1), a \in atoms}

ItemsUpTo(atoms, max) == UNION {ItemSeqs(atoms, n) : n \in 0..max}

DataFrames == {Value("DataFrame", c, rows) :
                  c \in 0..MaxColumns, rows \in ItemsUpTo({"row"}, MaxTableRows)}
SeriesValues == {Value("Series", 1, e) : e \in ItemsUpTo({"k  v"}, MaxTableRows)}
Lists == {Value("list", 0, items) : items \in ItemsUpTo({"a", "b"}, MaxItems)}
Scalars == {Value("int", 0, <<"7">>), Value("float", 0, <<"7.5">>),
            Value("bool", 0, <<"True">>),
            Value("numpy.int64", 0, <<"7">>),
            Value("numpy.float64", 0, <<"7.5">>),
            Value("str", 0, <<"text">>), Value("NoneType", 0, <<"None">>),
            Value("tuple", 0, <<"(1, 2)">>)}

Values == DataFrames \cup SeriesValues \cup Lists \cup Scalars

\* The default of local_vars.get('result', ...), line 149.
Sentinel == Value("str", 0, <<"No result generated">>)

\* The classes a type derives from: bool is an int, numpy.float64 is a
\* float, numpy.int64 is neither.
Mro(type) ==
    IF type = "bool" THEN {"bool", "int"}
    ELSE IF type = "numpy.float64" THEN {"numpy.float64", "float"}
    ELSE {type}

IsInstance(v, types) == Mro(v.type) \cap types /= {}

\* str(value) of a scalar.
Str(v) == v.items[1]

\* DataFrame.to_markdown(index=False): a header line, a rule, a line per row.
to_markdown(v) ==
    <<<<"| header |">>, <<"|---|">>>> \o
        [i \in 1..Len(v.items) |-> <<"| ", v.items[i], " |">>]

\* Series.to_string(): a line per entry; the empty Series has its own text.
to_string(v) ==
    IF Len(v.items) = 0 THEN <<<<"Series([], )">>>>
    ELSE [i \in 1..Len(v.items) |-> <<v.items[i]>>]

NoResults == <<<<"No results found.">>>>

\* The bullet that starts each line of a rendered list, line 163.
BULLET == "* "

\* Lines 152-167: the display text, a sequence of lines, of a captured
\* result.
format_result(result) ==
    IF IsInstance(result, {"DataFrame"})
    THEN IF Len(result.items) = 0 THEN NoResults ELSE to_markdown(result)
    ELSE IF IsInstance(result, {"Series"}) THEN to_string(result)
    ELSE IF IsInstance(result, {"list"})
    THEN IF Len(result.items) = 0 THEN NoResults
         ELSE [i \in 1..Len(result.items) |-> <<BULLET, result.items[i]>>]
    ELSE IF IsInstance(result, {"int", "float"})
    THEN <<<<"**Result:** ", Str(result)>>>>
    ELSE <<<<Str(result)>>>>

\* Names a snippet may read: the two locals, a builtin and a module global
\* of query_agent.py.
Builtins == {"len", "__import__"}
ModuleGlobals == {"os", "re", "pd", "QueryAgent"}
Names == {"df", "pd", "len", "os"}
NoName == "<no name>"

\* exec(code, globals, locals): exec adds __builtins__ to a globals dict that
\* lacks it; a name is looked up in locals, then globals, then the builtins.
ExecGlobals(globals) == globals \cup {"__builtins__"}

Resolvable(name, globals, locals) ==
    \/ name \in locals
    \/ name \in ExecGlobals(globals)
    \/ ("__builtins__" \in ExecGlobals(globals) /\ name \in Builtins)

\* What a snippet does when run: it fails to compile, or it reads a name
\* (or none) and then raises, binds result to a value, or binds nothing
\* named result.
\* The classes of exception that except Exception catches; SystemExit is
\* not one of them.
ExceptionClasses == {"SyntaxError", "NameError", "KeyError"}

Effects == {[do |-> "raise", exc |-> e, value |-> Sentinel] :
               e \in {"KeyError", "SystemExit"}}
           \cup {[do |-> "pass", exc |-> None, value |-> Sentinel]}
           \cup {[do |-> "bind", exc |-> None, value |-> v] : v \in Values}

Programs ==
    {[compiles |-> FALSE, uses |-> NoName,
      effect |-> [do |-> "pass", exc |-> None, value |-> Sentinel]]}
    \cup {[compiles |-> TRUE, uses |-> u, effect |-> e] :
             u \in Names \cup {NoName}, e \in Effects}

EmptyProgram ==
    [compiles |-> TRUE, uses |-> NoName,
     effect |-> [do |-> "pass", exc |-> None, value |-> Sentinel]]

\* The programs a snippet text may denote: the empty text does nothing.
Meaning(code) == IF code = <<>> THEN {EmptyProgram} ELSE Programs

\* exec(code, {}, local_vars), line 148: the exception raised (or None), the
\* names bound in local_vars afterwards and the names the snippet resolved.
Exec(prog, globals, locals) ==
    IF ~prog.compiles
    THEN [raised |-> "SyntaxError", result |-> Sentinel, bound |-> FALSE,
          resolved |-> {}]
    ELSE IF prog.uses /= NoName /\ ~Resolvable(prog.uses, globals, locals)
    THEN [raised |-> "NameError", result |-> Sentinel, bound |-> FALSE,
          resolved |-> {}]
    ELSE LET seen == IF prog.uses = NoName THEN {} ELSE {prog.uses}
         IN  IF prog.effect.do = "raise"
             THEN [raised |-> prog.effect.exc, result |-> Sentinel,
                   bound |-> FALSE, resolved |-> seen]
             ELSE IF prog.effect.do = "bind"
             THEN [raised |-> None, result |-> prog.effect.value,
                   bound |-> TRUE, resolved |-> seen]
             ELSE [raised |-> None, result |-> Sentinel, bound |-> FALSE,
                   resolved |-> seen]

\* str(e) of an exception raised by the snippet.
ExcText(exc) == exc

Outcome(kind, display, message, ran) ==
    [kind |-> kind, display |-> display, message |-> message, ran |-> ran]

_execute_code_terse(code, prog) ==
    LET ran == Exec(prog, {}, {"df", "pd"})
    IN  IF ran.raised = None
        THEN Outcome("return", format_result(ran.result), <<>>, ran)
        ELSE IF ran.raised \in ExceptionClasses
        THEN Outcome("raise", <<>>,
                     <<"Code execution error: ", ExcText(ran.raised)>>, ran)
        ELSE Outcome("propagate", <<>>, <<ExcText(ran.raised)>>, ran)

_execute_code_strict(code, prog) ==
    LET ran == Exec(prog, {}, {"df", "pd"})
    IN  IF ran.raised = None /\ ran.bound
        THEN Outcome("return", format_result(ran.result), <<>>, ran)
        ELSE IF ran.raised = None
        THEN Outcome("raise", <<>>,
                     <<"Code execution error: ", "'result'", "\nCode: ">> \o code,
                     ran)
        ELSE IF ran.raised \in ExceptionClasses
        THEN Outcome("raise", <<>>,
                     <<"Code execution error: ", ExcText(ran.raised),
                       "\nCode: ">> \o code, ran)
        ELSE Outcome("propagate", <<>>, <<ExcText(ran.raised)>>, ran)

\* _execute_code, lines 144-169: the display text, or the Exception raised
\* with the snippet in its message; an exception that is not an Exception
\* (SystemExit) passes through the except clause.
_execute_code(code, prog) ==
    LET ran == Exec(prog, {}, {"df", "pd"})
    IN  IF ran.raised = None
        THEN Outcome("return", format_result(ran.result), <<>>, ran)
        ELSE IF ran.raised \in ExceptionClasses
        THEN Outcome("raise", <<>>,
                     <<"Code execution error: ", ExcText(ran.raised),
                       "\nCode: ">> \o code, ran)
        ELSE Outcome("propagate", <<>>, <<ExcText(ran.raised)>>, ran)

(***************************************************************************)
(* State                                                                   *)
(***************************************************************************)
VARIABLES
    \* SpecAccess
    a_pc, a_data, a_role, a_valid, a_out, a_filtered, a_file,
    \* SpecQuery: the fields of a QueryAgent and the locals of query
    q_pc, q_llm, q_content, q_code, q_exec, q_ret,
    \* Spec: st.session_state and the locals of one run of main
    s_pc, s_data, s_user_role, s_agent, s_filtered_data, s_history,
    s_role, s_trigger, s_query, s_served, s_display,
    \* the queries the agent has answered since the last Clear History
    s_answered

accessVars == <<a_pc, a_data, a_role, a_valid, a_out, a_filtered, a_file>>
queryVars == <<q_pc, q_llm, q_content, q_code, q_exec, q_ret>>
sessionVars == <<s_pc, s_data, s_user_role, s_agent, s_filtered_data,
                 s_history, s_role, s_trigger, s_query, s_served, s_display,
                 s_answered>>
vars == <<accessVars, queryVars, sessionVars>>

\* Values of the variables before anything has run.
NoValidation == [is_valid |-> FALSE, error |-> "<not validated>"]
NoOutput == [ok |-> FALSE, df |-> <<>>, error |-> "<not run>"]
NoRun == [raised |-> None, result |-> Sentinel, bound |-> FALSE,
          resolved |-> {}]
NoOutcome == Outcome("none", <<>>, <<>>, NoRun)
NoReturn == [success |-> FALSE, result |-> <<>>, error |-> <<>>]
NoRole == [kind |-> "None", items |-> <<>>]
NoAgent == [built |-> FALSE, df |-> <<>>, role |-> NoRole, replaced |-> FALSE]
NotServed == [asked |-> FALSE, df |-> <<>>, role |-> NoRole]
NotShown == [shown |-> FALSE, items |-> <<>>]

\* Each specification runs one part of the program; the variables of the
\* other parts rest at these values.
AccessIdle ==
    /\ a_pc = "off"
    /\ a_data = <<>>
    /\ a_role = NoRole
    /\ a_valid = NoValidation
    /\ a_out = NoOutput
    /\ a_filtered = FALSE
    /\ a_file = "unread"

QueryIdle ==
    /\ q_pc = "off"
    /\ q_llm = FALSE
    /\ q_content = <<>>
    /\ q_code = <<>>
    /\ q_exec = NoOutcome
    /\ q_ret = NoReturn

SessionIdle ==
    /\ s_pc = "off"
    /\ s_data = <<>>
    /\ s_user_role = NoRole
    /\ s_agent = NoAgent
    /\ s_filtered_data = <<>>
    /\ s_history = <<>>
    /\ s_role = NoRole
    /\ s_trigger = "none"
    /\ s_query = <<>>
    /\ s_served = NotServed
    /\ s_display = NotShown
    /\ s_answered = <<>>

(***************************************************************************)
(* SpecAccess: a role descriptor goes through validation (setup_sidebar)   *)
(* and, when accepted, through the access filter (main).                   *)
(***************************************************************************)

AccessInit ==
    /\ a_pc = "validate"
    /\ a_data \in Datasets
    /\ a_role \in RoleInputs
    /\ a_valid = NoValidation
    /\ a_out = NoOutput
    /\ a_filtered = FALSE
    /\ a_file = "unread"

\* setup_sidebar, lines 115-120, and main, lines 223-225: an invalid role
\* stops the run.
AccessValidate ==
    /\ a_pc = "validate"
    /\ a_valid' = validate_user_role(a_role)
    /\ a_pc' = IF a_valid'.is_valid THEN "filter" ELSE "rejected"
    /\ UNCHANGED <<a_data, a_role, a_out, a_filtered, a_file, queryVars,
                   sessionVars>>

\* main, lines 227-236: load and filter; the file is read again on this
\* call and may be missing (a_file remembers which).
AccessFilter ==
    /\ a_pc = "filter"
    /\ \E exists \in BOOLEAN :
          /\ a_out' = load_and_filter_data(a_role, exists, a_data)
          /\ a_file' = IF exists THEN "read" ELSE "missing"
    /\ a_filtered' = TRUE
    /\ a_pc' = IF ~a_out'.ok THEN "load_error"
               ELSE IF Len(a_out'.df) = 0 THEN "no_data"
               ELSE "scoped"
    /\ UNCHANGED <<a_data, a_role, a_valid, queryVars, sessionVars>>

\* The next interaction: a new role descriptor is submitted.
AccessRerun ==
    /\ a_pc \in {"rejected", "load_error", "no_data", "scoped"}
    /\ a_role' \in RoleInputs
    /\ a_pc' = "validate"
    /\ a_valid' = NoValidation
    /\ a_out' = NoOutput
    /\ a_filtered' = FALSE
    /\ a_file' = "unread"
    /\ UNCHANGED <<a_data, queryVars, sessionVars>>

AccessNext == AccessValidate \/ AccessFilter \/ AccessRerun

AccessStart == AccessInit /\ QueryIdle /\ SessionIdle

SpecAccess == AccessStart /\ [][AccessNext]_vars

(***************************************************************************)
(* Claims about the access filter and role validation                      *)
(***************************************************************************)
RowSet(df) == {df[i] : i \in 1..Len(df)}

\* The rows keep the order of the file: identifiers strictly increase.
InFileOrder(df) == \A i \in 1..Len(df) : \A j \in 1..Len(df) :
                      i < j => df[i].id < df[j].id

ClassSet(role) == Get(role, "assigned_class") /= None
RegionSet(role) == Get(role, "region") /= None

\* The rows of the full dataset that satisfy every filter the role sets.
Permitted(role, data) ==
    {row \in RowSet(data) :
        /\ ClassSet(role) => row.class = Get(role, "assigned_class")
        /\ RegionSet(role) => row.region = Get(role, "region")}

\* C1: whenever the filter has produced a Scoped Dataset, it holds exactly
\* the rows of the full dataset that satisfy every filter the role sets
\* (both predicates when both are set, the single one when one is set),
\* each once and in file order; no row outside the dataset appears.
C1_ScopedIsExactlyPermitted ==
    (a_filtered /\ a_out.ok) =>
        /\ RowSet(a_out.df) = Permitted(a_role, a_data)
        /\ RowSet(a_out.df) \subseteq RowSet(a_data)
        /\ InFileOrder(a_out.df)
        /\ (ClassSet(a_role) /\ RegionSet(a_role)) =>
               \A i \in 1..Len(a_out.df) :
                   /\ a_out.df[i].class = a_role.items["assigned_class"]
                   /\ a_out.df[i].region = a_role.items["region"]

\* A role with both filters set, on a dataset where one row matches only
\* the class, one only the region and one both, has been filtered.
C1_Witness ==
    /\ a_filtered /\ a_out.ok
    /\ ClassSet(a_role) /\ RegionSet(a_role)
    /\ Len(a_data) = 3
    /\ Len(a_out.df) = 1
    /\ \E i \in 1..3 : /\ a_data[i].class = a_role.items["assigned_class"]
                        /\ a_data[i].region /= a_role.items["region"]
    /\ \E i \in 1..3 : /\ a_data[i].class /= a_role.items["assigned_class"]
                        /\ a_data[i].region = a_role.items["region"]

\* A role lacks an identifier, or lacks both filter fields.
LacksRequired(role) ==
    \/ role.kind /= "dict"
    \/ "username" \notin DOMAIN role.items
    \/ /\ "assigned_class" \notin DOMAIN role.items
       /\ "region" \notin DOMAIN role.items

\* C2: a role that lacks an identifier, or lacks both filter fields, is
\* rejected before any filtering: filtering has only been performed for a
\* role that validation accepted, which has its identifier and a filter
\* field, and a rejected role has no Scoped Dataset.
C2_FilterOnlyAfterAccept ==
    /\ a_filtered => (a_valid.is_valid /\ ~LacksRequired(a_role))
    /\ (a_pc /= "validate" /\ LacksRequired(a_role)) =>
           (a_pc = "rejected" /\ ~a_valid.is_valid)
    /\ a_pc = "rejected" => (~a_filtered /\ a_out = NoOutput)

\* A role with an identifier but neither filter field has been rejected.
C2_Witness ==
    /\ a_pc = "rejected"
    /\ a_role.kind = "dict"
    /\ DOMAIN a_role.items = {"username"}
    /\ a_out = NoOutput

\* C3: for every role that validation accepts, the filter applies at least
\* one of the class/region predicates and never takes the unfiltered
\* branch.
C3_AcceptedRoleIsFiltered ==
    (a_filtered /\ a_valid.is_valid /\ a_out.ok) =>
        filter_branch(a_role) /= "all"

\* C9: a role whose filters match none of the N rows gets an empty Scoped
\* Dataset and no error; the filter fails only when the file cannot be
\* loaded.
C9_EmptyIsNotAnError ==
    /\ (a_filtered /\ a_file = "read") =>
           /\ a_out.ok /\ a_out.error = None
           /\ a_pc \in {"no_data", "scoped"}
           /\ Permitted(a_role, a_data) = {} => (a_out.df = <<>> /\ a_pc = "no_data")
    /\ (a_filtered /\ ~a_out.ok) => (a_file = "missing" /\ a_pc = "load_error")

\* A dataset of three rows, a role that matches none of them: the result is
\* empty and carries no error.
C9_Witness ==
    /\ a_filtered /\ a_out.ok /\ a_out.error = None
    /\ a_file = "read"
    /\ Len(a_data) = 3
    /\ filter_branch(a_role) = "both"
    /\ a_out.df = <<>>
    /\ a_pc = "no_data"

(***************************************************************************)
(* SpecQuery: QueryAgent.query, step by step                               *)
(***************************************************************************)
Success(display) == [success |-> TRUE, result |-> display, error |-> <<>>]
Failure(message) == [success |-> FALSE, result |-> <<>>, error |-> message]

\* The except clause of query, lines 84-88.
query_error(message) == Failure(<<"Query processing error: ">> \o message)

\* After QueryAgent.__init__: no LLM, no data.
QueryInit ==
    /\ q_pc = "idle"
    /\ q_llm = FALSE
    /\ q_content = <<>>
    /\ q_code = <<>>
    /\ q_exec = NoOutcome
    /\ q_ret = NoReturn

\* setup_agent: the LLM client is built, or its constructor raises and the
\* agent stays without one.
SetupAgent ==
    /\ q_pc \in {"idle", "returned"}
    /\ \E built \in BOOLEAN : q_llm' = (q_llm \/ built)
    /\ UNCHANGED <<q_pc, q_content, q_code, q_exec, q_ret, accessVars, sessionVars>>

\* query, lines 60-70: the two guards; a call that passes them goes on to
\* _generate_code.
QueryStart ==
    /\ q_pc \in {"idle", "returned"}
    /\ q_code' = <<>>
    /\ q_exec' = NoOutcome
    /\ q_content' = <<>>
    /\ \E question \in Questions :
          IF ~q_llm
          THEN /\ q_ret' = Failure(<<"LLM not initialized. Call setup_agent() first.">>)
               /\ q_pc' = "returned"
          ELSE IF question = <<>> \/ Strip(question) = <<>>
          THEN /\ q_ret' = Failure(<<"Empty query provided.">>)
               /\ q_pc' = "returned"
          ELSE /\ q_ret' = NoReturn
               /\ q_pc' = "invoke"
    /\ UNCHANGED <<q_llm, accessVars, sessionVars>>

\* _generate_code, line 122: the call of the model raises, which query turns
\* into a failure result, or answers with a completion.
InvokeModel ==
    /\ q_pc = "invoke"
    /\ \/ /\ q_ret' = query_error(<<"model endpoint error">>)
          /\ q_pc' = "returned"
          /\ q_content' = <<>>
       \/ /\ q_content' \in Completions
          /\ q_ret' = NoReturn
          /\ q_pc' = "generate"
    /\ UNCHANGED <<q_llm, q_code, q_exec, accessVars, sessionVars>>

\* _generate_code, lines 123-131: the snippet, or the exception that query
\* turns into a failure result.
GenerateCode ==
    /\ q_pc = "generate"
    /\ LET gen == _generate_code(q_content)
       IN  IF gen.ok
           THEN /\ q_code' = gen.code
                /\ q_pc' = "execute"
                /\ q_ret' = NoReturn
           ELSE /\ q_code' = <<>>
                /\ q_pc' = "returned"
                /\ q_ret' = query_error(<<gen.error>>)
    /\ q_content' = <<>>
    /\ UNCHANGED <<q_llm, q_exec, accessVars, sessionVars>>

\* _execute_code and the rest of query, lines 77-88.
ExecuteCode ==
    /\ q_pc = "execute"
    /\ \E prog \in Meaning(q_code) :
          LET out == _execute_code(q_code, prog)
          IN  /\ q_exec' = out
              /\ q_ret' = IF out.kind = "return" THEN Success(out.display)
                          ELSE IF out.kind = "raise" THEN query_error(out.message)
                          ELSE NoReturn
              /\ q_pc' = IF out.kind = "propagate" THEN "propagated"
                         ELSE "returned"
    /\ UNCHANGED <<q_llm, q_content, q_code, accessVars, sessionVars>>

QueryNext ==
    SetupAgent \/ QueryStart \/ InvokeModel \/ GenerateCode \/ ExecuteCode

QueryStartState == QueryInit /\ AccessIdle /\ SessionIdle

SpecQuery == QueryStartState /\ [][QueryNext]_vars

(***************************************************************************)
(* Claims about the query agent                                            *)
(***************************************************************************)
Executed == q_exec.kind /= "none"

\* C4: a snippet that raises a syntax error or a runtime exception makes
\* the executor raise an execution failure whose message contains the
\* snippet text, and query returns a failure result carrying that message
\* instead of letting the exception through.
C4_RaisingSnippetIsReported ==
    (Executed /\ q_exec.ran.raised \in ExceptionClasses) =>
        /\ q_exec.kind = "raise"
        /\ q_exec.message[1] = "Code execution error: "
        /\ Contains(q_exec.message, <<"\nCode: ">> \o q_code)
        /\ q_pc = "returned"
        /\ ~q_ret.success
        /\ q_ret.error = <<"Query processing error: ">> \o q_exec.message
        /\ Contains(q_ret.error, q_code)

\* A snippet of several tokens failed to compile and query has returned.
C4_Witness ==
    /\ q_pc = "returned"
    /\ Executed
    /\ q_exec.ran.raised = "SyntaxError"
    /\ Len(q_code) >= 3
    /\ ~q_ret.success

\* C5: a snippet that runs without raising and binds no variable named
\* result yields the text "No result generated" as a successful result.
C5_NoResultSentinel ==
    (Executed /\ q_exec.ran.raised = None /\ ~q_exec.ran.bound) =>
        /\ q_exec.kind = "return"
        /\ q_pc = "returned"
        /\ q_ret = Success(<<<<"No result generated">>>>)

\* A nonempty snippet that read df ran to its end without binding result.
C5_Witness ==
    /\ q_pc = "returned"
    /\ Executed
    /\ q_code /= <<>>
    /\ q_exec.ran.raised = None
    /\ ~q_exec.ran.bound
    /\ q_exec.ran.resolved = {"df"}
    /\ q_ret.success

\* The kinds of result of the rule table.
NumericTypes == {"int", "float", "numpy.int64", "numpy.float64"}
OtherTypes == {"str", "NoneType", "tuple"}

\* The display text the rule table gives a captured result; TRUE where the
\* table does not say (a bool, an empty column vector).
RuleTable(v, display) ==
    IF v.type = "DataFrame"
    THEN IF Len(v.items) = 0 THEN display = NoResults
         ELSE display = to_markdown(v)
    ELSE IF v.type = "Series"
    THEN Len(v.items) > 0 =>
            /\ Len(display) = Len(v.items)
            /\ \A i \in 1..Len(v.items) : display[i] = <<v.items[i]>>
    ELSE IF v.type = "list"
    THEN IF Len(v.items) = 0 THEN display = NoResults
         ELSE /\ Len(display) = Len(v.items)
              /\ \A i \in 1..Len(v.items) : display[i] = <<BULLET, v.items[i]>>
    ELSE IF v.type \in NumericTypes
    THEN display = <<<<"**Result:** ", Str(v)>>>>
    ELSE IF v.type \in OtherTypes
    THEN display = <<<<Str(v)>>>>
    ELSE TRUE

\* C6: every captured result is rendered by the rule table: an empty table
\* and an empty list as "No results found.", a table with rows as a textual
\* table, a column vector as its entries in order, a list of n items as n
\* bullet lines in order, every numeric scalar as "Result: <value>", every
\* other value as its default text.
C6_NormalizationRuleTable ==
    (Executed /\ q_exec.kind = "return" /\ q_exec.ran.bound) =>
        RuleTable(q_exec.ran.result, q_ret.result)

\* C7: translating a completion that contains a fence marker never fails,
\* and a completion without one is returned as its trimmed text.
C7_FenceShapeNeverFails ==
    [][q_pc = "generate" =>
          /\ q_pc' = "execute"
          /\ ~Contains(q_content, <<FENCE>>) => q_code' = Strip(q_content)]_vars

\* C8: the snippet resolves no name but the two bindings of its scope, df
\* and pd: no builtin and no other ambient name.
C8_OnlyDfAndPdResolvable ==
    Executed => q_exec.ran.resolved \subseteq {"df", "pd"}

(***************************************************************************)
(* app.py: the session                                                     *)
(***************************************************************************)
MaxHistory == 6

\* The number of entries of the log that the page shows, line 318.
DisplayCount == 5

\* The dataset file of a session: empty, the three-row example, or two
\* classes in one region.
Row(i, c, r) == [id |-> i, class |-> c, region |-> r]

SessionDatasets ==
    {<<>>,
     <<Row(1, "8", "North"), Row(2, "8", "North"), Row(3, "9", "South")>>,
     <<Row(1, "8", "North"), Row(2, "9", "North")>>}

\* get_available_classes, get_available_regions: the distinct values.
get_available_classes(df) == {df[i].class : i \in 1..Len(df)}
get_available_regions(df) == {df[i].region : i \in 1..Len(df)}

\* What the user may leave in the form for one run: nothing pressed, Clear
\* History pressed, or Submit Query pressed on some text of the input box.
QueryTexts == {<<>>, <<SP>>, <<CH>>, <<SP, CH>>}
FormInputs == {<<"none", <<>>>>, <<"clear", <<>>>>}
              \cup {<<"submit", q>> : q \in QueryTexts}

Answer == <<<<"answer">>>>

needs_agent_when_missing(agent, stored_role, user_role) == ~agent.built

\* main, lines 242-243: the agent is (re)built when there is none or the
\* stored role differs from the role of this run.
needs_agent(agent, stored_role, user_role) ==
    ~agent.built \/ stored_role /= user_role

SessionInit ==
    /\ s_pc = "await"
    /\ s_data \in SessionDatasets
    /\ s_user_role = NoRole
    /\ s_agent = NoAgent
    /\ s_filtered_data = <<>>
    /\ s_history = <<>>
    /\ s_role = NoRole
    /\ s_trigger = "none"
    /\ s_query = <<>>
    /\ s_served = NotServed
    /\ s_display = NotShown
    /\ s_answered = <<>>

\* A run of main starts: setup_sidebar, lines 80-131, and main, lines
\* 221-225. The options are read from the file; the role is built from the
\* sidebar and validated. A missing file, an empty option list (int(None)
\* raises) and an invalid role each end the run.
SetupSidebar ==
    /\ s_pc = "await"
    /\ s_served' = NotServed
    /\ s_display' = NotShown
    /\ \E exists \in BOOLEAN, username \in Usernames :
          LET options == load_student_data(exists, s_data)
              classes == get_available_classes(options.df)
              regions == get_available_regions(options.df)
          IN  IF ~options.ok \/ classes = {} \/ regions = {}
              THEN /\ s_pc' = "await"
                   /\ UNCHANGED s_role
              ELSE \E assigned_class \in classes, region \in regions :
                      LET user_role == MkDict(username, assigned_class, region)
                      IN  IF ~validate_user_role(user_role).is_valid
                          THEN /\ s_pc' = "await"
                               /\ UNCHANGED s_role
                          ELSE /\ s_pc' = "filter"
                               /\ s_role' = user_role
    /\ UNCHANGED <<s_data, s_user_role, s_agent, s_filtered_data, s_history,
                   s_trigger, s_query, s_answered, accessVars, queryVars>>

\* main, lines 227-239: a load error or an empty Scoped Dataset ends the
\* run; otherwise the Scoped Dataset is stored.
LoadAndFilter ==
    /\ s_pc = "filter"
    /\ \E exists \in BOOLEAN :
          LET out == load_and_filter_data(s_role, exists, s_data)
          IN  IF ~out.ok \/ Len(out.df) = 0
              THEN /\ s_pc' = "await"
                   /\ UNCHANGED s_filtered_data
              ELSE /\ s_pc' = "agent"
                   /\ s_filtered_data' = out.df
    /\ UNCHANGED <<s_data, s_user_role, s_agent, s_history, s_role, s_trigger,
                   s_query, s_served, s_display, s_answered, accessVars,
                   queryVars>>

\* main, lines 241-253, with create_query_agent: the agent and then the
\* stored role are replaced when the agent is built; a failed build ends
\* the run and replaces neither. The agent remembers the role it was built
\* for and whether it replaced an earlier agent.
EnsureAgent ==
    /\ s_pc = "agent"
    /\ IF needs_agent(s_agent, s_user_role, s_role)
       THEN \E created \in BOOLEAN :
               IF created
               THEN /\ s_agent' = [built |-> TRUE, df |-> s_filtered_data,
                                   role |-> s_role,
                                   replaced |-> s_agent.built]
                    /\ s_user_role' = s_role
                    /\ s_pc' = "input"
               ELSE /\ s_pc' = "await"
                    /\ UNCHANGED <<s_agent, s_user_role>>
       ELSE /\ s_pc' = "input"
            /\ UNCHANGED <<s_agent, s_user_role>>
    /\ UNCHANGED <<s_data, s_filtered_data, s_history, s_role, s_trigger,
                   s_query, s_served, s_display, s_answered, accessVars,
                   queryVars>>

\* process_query, lines 169-180: a blank query is refused without asking
\* the agent; otherwise the agent answers or fails.
process_query(query, answered) ==
    IF query = <<>> \/ Strip(query) = <<>>
    THEN [asked |-> FALSE, result |-> <<>>, error |-> "Please enter a query"]
    ELSE IF answered
    THEN [asked |-> TRUE, result |-> Answer, error |-> None]
    ELSE [asked |-> TRUE, result |-> <<>>, error |-> "Query processing error"]

\* main, lines 295-304: the log after a submitted query; only a query
\* without error is appended.
history_after(history, query, out) ==
    IF out.error /= None THEN history
    ELSE Append(history, [query |-> query, result |-> out.result])

history_display_oldest(history) ==
    LET shown == IF Len(history) <= DisplayCount THEN history
                 ELSE SubSeq(history, 1, DisplayCount)
    IN  [idx \in 1..Len(shown) |->
            [number |-> Len(history) - (idx - 1),
             query |-> shown[Len(shown) - idx + 1].query,
             result |-> shown[Len(shown) - idx + 1].result]]

\* main, lines 313-321: the expanders of the page, top to bottom, over
\* reversed(query_history[-5:]); each is numbered len(query_history) - idx.
history_display(history) ==
    LET last == IF Len(history) <= DisplayCount THEN history
                ELSE SubSeq(history, Len(history) - DisplayCount + 1,
                            Len(history))
    IN  [idx \in 1..Len(last) |->
            [number |-> Len(history) - (idx - 1),
             query |-> last[Len(last) - idx + 1].query,
             result |-> last[Len(last) - idx + 1].result]]

\* main, lines 273-321: the text box and the two buttons are read; Clear
\* History empties the log and reruns at once, before anything is shown; a
\* submitted, nonempty query goes to the agent of the session, once, and is
\* logged when it succeeds; the page then shows the log.
HandleInput ==
    /\ s_pc = "input"
    /\ s_pc' = "await"
    /\ \E input \in FormInputs :
          /\ s_trigger' = input[1]
          /\ s_query' = input[2]
          /\ IF s_trigger' = "clear"
             THEN /\ s_history' = <<>>
                  /\ s_answered' = <<>>
                  /\ s_display' = NotShown
                  /\ UNCHANGED s_served
             ELSE IF s_trigger' = "submit" /\ s_query' /= <<>>
             THEN \E answered \in BOOLEAN :
                     LET out == process_query(s_query', answered)
                     IN  /\ s_served' = IF out.asked
                                        THEN [asked |-> TRUE, df |-> s_agent.df,
                                              role |-> s_agent.role]
                                        ELSE NotServed
                         /\ s_history' = history_after(s_history, s_query', out)
                         /\ Len(s_history') <= MaxHistory
                         /\ s_answered' = IF out.asked /\ answered
                                          THEN Append(s_answered, s_query')
                                          ELSE s_answered
                         /\ s_display' = [shown |-> TRUE,
                                          items |-> history_display(s_history')]
             ELSE /\ s_display' = [shown |-> TRUE,
                                   items |-> history_display(s_history)]
                  /\ UNCHANGED <<s_history, s_served, s_answered>>
    /\ UNCHANGED <<s_data, s_user_role, s_agent, s_filtered_data, s_role,
                   accessVars, queryVars>>

Next == SetupSidebar \/ LoadAndFilter \/ EnsureAgent \/ HandleInput

Init == SessionInit /\ AccessIdle /\ QueryIdle

Spec == Init /\ [][Next]_vars

(***************************************************************************)
(* Claims about the session                                                *)
(***************************************************************************)
\* C10: every query the agent is asked runs against the Scoped Dataset of
\* the role of the run that submitted it, on an agent built for that role;
\* the stored role is the role the stored agent was built for, and that
\* agent holds that role's Scoped Dataset.
C10_QueryRunsOnCurrentRole ==
    /\ s_served.asked =>
          /\ s_served.role = s_role
          /\ s_served.df = get_filtered_data(s_role, s_data)
    /\ s_pc = "input" =>
          /\ s_agent.built
          /\ s_agent.role = s_role
          /\ s_agent.df = get_filtered_data(s_role, s_data)
    /\ s_agent.built = (s_user_role /= NoRole)
    /\ s_agent.role = s_user_role
    /\ s_agent.built => s_agent.df = get_filtered_data(s_user_role, s_data)

\* A query has been answered by an agent that replaced the agent of an
\* earlier role, on the one row of class 9 of the three-row dataset.
C10_Witness ==
    /\ s_served.asked
    /\ s_agent.replaced
    /\ s_served.role = s_agent.role
    /\ Len(s_history) = 1
    /\ s_served.role.items["assigned_class"] = "9"
    /\ Len(s_served.df) = 1
    /\ Len(s_data) = 3

Queries(history) == [i \in 1..Len(history) |-> history[i].query]

Min(a, b) == IF a <= b THEN a ELSE b

\* C11: the log holds exactly the queries answered successfully since the
\* last Clear History, in submission order, each with its answer (a failed
\* or blank query adds nothing); a page that shows the history shows the
\* last 5 entries of the log and no other, most recent first.
C11_HistoryLogAndDisplay ==
    /\ Queries(s_history) = s_answered
    /\ \A i \in 1..Len(s_history) :
          /\ s_history[i].result = Answer
          /\ Strip(s_history[i].query) /= <<>>
    /\ (s_pc = "await" /\ s_display.shown) =>
          /\ Len(s_display.items) = Min(Len(s_history), DisplayCount)
          /\ \A k \in 1..Len(s_display.items) :
                /\ s_display.items[k].number = Len(s_history) - k + 1
                /\ s_display.items[k].query = s_history[Len(s_history) - k + 1].query
                /\ s_display.items[k].result = s_history[Len(s_history) - k + 1].result
    /\ (s_pc = "await" /\ s_served /= NotServed) => s_display.shown

\* Six queries have been answered, the first and the last differing; a
\* failed submission has just left the log as it was, and the page shows
\* entries 6 down to 2.
C11_Witness ==
    /\ s_pc = "await"
    /\ Len(s_history) = 6
    /\ s_history[1].query /= s_history[6].query
    /\ s_trigger = "submit"
    /\ s_served.asked
    /\ s_display.shown
    /\ Len(s_display.items) = 5
    /\ s_display.items[1].number = 6
    /\ s_display.items[5].number = 2

====
